---------------------------- MODULE Spec2Model ----------------------------
(***************************************************************************)
(* Reflectance models (parametrizations/brdf.py) and the basis-mixture     *)
(* material parametrization (parametrizations/materials.py).               *)
(*                                                                         *)
(* Four specifications: Spec is the life of one BaseSpecularMaterials      *)
(* instance (initialize, get, enforce, serialize, deserialize, optimizer   *)
(* writes); SpecTwo adds a second instance that calls get_brdf_parameters; *)
(* SpecRhos is one calculate_rhos call on a reflectance model; SpecCalls   *)
(* is one call of a module-level function (the factories, the recursive    *)
(* dict helpers, SmithG1).                                                 *)
(*                                                                         *)
(* In Spec tensor entries are extended rationals <<n, d>>: d > 0 is the    *)
(* finite value n/d in lowest terms, <<0,0>> is NaN, <<1,0>> and <<-1,0>>  *)
(* are +Inf and -Inf.  Arithmetic on them follows IEEE-754 for the special *)
(* cases (x/0, 0/0, Inf*0, NaN propagation) and is exact on finite values. *)
(* In SpecRhos entries are rounded decimal floats (see below), since the   *)
(* reflectance terms depend on rounding.                                   *)
(* Tensors live in storages; a Parameter or a tensor is a reference to a   *)
(* storage, so that two names of one storage see each other's in-place     *)
(* writes.                                                                 *)
(***************************************************************************)
EXTENDS Integers, Sequences, FiniteSets, TLC

VARIABLES
    heap,          \* storage id -> 2-D tensor value (tuple of rows)
    brdf,          \* the Reflectance Model the instance is bound to
    inst,          \* attributes of the BaseSpecularMaterials instance
    diffuse_init,  \* the caller's diffuse_materials array (a storage id)
    ckpt,          \* the value serialize() last returned to the caller
    cache,         \* lru_cache(maxsize=1) of get_brdf_parameters
    ret,           \* what the last get_brdf_parameters call returned
    last,          \* the last operation called
    prev,          \* the operation called before it
    raised,        \* the exception the last operation ended with
    nget,          \* get_brdf_parameters calls made so far
    ops,           \* operations made so far
    call,          \* the arguments of a direct Reflectance Model call
    out            \* what that call returned

vars == <<heap, brdf, inst, diffuse_init, ckpt, cache, ret, last, prev, raised, nget,
          ops, call, out>>

(***************************************************************************)
(* Bounds of the model.                                                    *)
(***************************************************************************)
NrPoints == 2
MaxOps == 4

(***************************************************************************)
(* Extended rational arithmetic.                                           *)
(***************************************************************************)
RECURSIVE GCD(_, _)
GCD(a, b) == IF b = 0 THEN a ELSE GCD(b, a % b)

Abs(x) == IF x < 0 THEN -x ELSE x

Sgn(x) == IF x < 0 THEN -1 ELSE IF x > 0 THEN 1 ELSE 0

Rat(n, d) ==
    LET g == GCD(Abs(n), Abs(d))
        s == IF d < 0 THEN -1 ELSE 1
    IN  <<(s * n) \div g, (s * d) \div g>>

NaN == <<0, 0>>
PosInf == <<1, 0>>
NegInf == <<-1, 0>>
Zero == <<0, 1>>
One == <<1, 1>>
Two == <<2, 1>>
Three == <<3, 1>>
Half == <<1, 2>>
MinusOne == <<-1, 1>>

IsNaN(x) == x[1] = 0 /\ x[2] = 0
IsInf(x) == x[1] # 0 /\ x[2] = 0
IsFinite(x) == x[2] # 0
InfOf(s) == IF s < 0 THEN NegInf ELSE PosInf

Add(a, b) ==
    IF IsNaN(a) \/ IsNaN(b) THEN NaN
    ELSE IF IsInf(a) THEN (IF IsInf(b) /\ b # a THEN NaN ELSE a)
    ELSE IF IsInf(b) THEN b
    ELSE Rat(a[1] * b[2] + b[1] * a[2], a[2] * b[2])

Mul(a, b) ==
    IF IsNaN(a) \/ IsNaN(b) THEN NaN
    ELSE IF IsInf(a) \/ IsInf(b)
         THEN (IF a[1] = 0 \/ b[1] = 0 THEN NaN ELSE InfOf(Sgn(a[1]) * Sgn(b[1])))
    ELSE Rat(a[1] * b[1], a[2] * b[2])

Div(a, b) ==
    IF IsNaN(a) \/ IsNaN(b) THEN NaN
    ELSE IF IsInf(b) THEN (IF IsInf(a) THEN NaN ELSE Zero)
    ELSE IF b[1] = 0 THEN (IF a[1] = 0 THEN NaN ELSE InfOf(Sgn(a[1])))
    ELSE IF IsInf(a) THEN InfOf(Sgn(a[1]) * Sgn(b[1]))
    ELSE Rat(a[1] * b[2], a[2] * b[1])

\* a < b; FALSE when either is NaN, as every IEEE comparison with NaN is
Less(a, b) ==
    IF IsNaN(a) \/ IsNaN(b) THEN FALSE
    ELSE IF IsInf(a) \/ IsInf(b)
         THEN (IF IsInf(a) /\ IsInf(b) THEN a[1] < b[1]
               ELSE IF IsInf(a) THEN a[1] < 0 ELSE b[1] > 0)
    ELSE IF a[2] = b[2] THEN a[1] < b[1]
    ELSE a[1] * b[2] < b[1] * a[2]

Leq(a, b) == ~IsNaN(a) /\ ~IsNaN(b) /\ ~Less(b, a)

(***************************************************************************)
(* Tensors: a 2-D tensor is a tuple of rows, a row a tuple of entries.     *)
(***************************************************************************)
Rows(t) == DOMAIN t
Cols(t) == IF t = <<>> THEN {} ELSE DOMAIN t[1]

\* torch.ones((r, c)) * v
Full(r, c, v) == [i \in 1..r |-> [j \in 1..c |-> v]]

\* Tensor.clamp_(min=lo): NaN stays NaN
ClampMinVal(x, lo) == IF IsNaN(x) THEN x ELSE IF Less(x, lo) THEN lo ELSE x

\* Tensor.clamp_(min=lo, max=hi): min(max(x, lo), hi), NaN stays NaN
ClampVal(x, lo, hi) ==
    IF IsNaN(x) THEN x
    ELSE IF Less(x, lo) THEN lo
    ELSE IF Less(hi, x) THEN hi
    ELSE x

ClampMin(t, lo) == [i \in DOMAIN t |-> [j \in DOMAIN t[i] |-> ClampMinVal(t[i][j], lo)]]

Clamp(t, lo, hi) == [i \in DOMAIN t |-> [j \in DOMAIN t[i] |-> ClampVal(t[i][j], lo, hi)]]

RECURSIVE SumTo(_, _)
SumTo(row, n) == IF n = 0 THEN Zero ELSE Add(SumTo(row, n - 1), row[n])

\* Tensor.sum(dim=-1, keepdim=True): one sum per row
RowSum(t) == [i \in DOMAIN t |-> SumTo(t[i], Len(t[i]))]

\* Tensor.div_(s) with s of shape (rows, 1), broadcast over the columns
DivRows(t, s) == [i \in DOMAIN t |-> [j \in DOMAIN t[i] |-> Div(t[i][j], s[i])]]

RECURSIVE DotTo(_, _, _, _)
DotTo(w, b, c, k) ==
    IF k = 0 THEN Zero ELSE Add(DotTo(w, b, c, k - 1), Mul(w[k], b[k][c]))

\* As MatMul, keeping only the first basis of the sum
MatMulFirstBasis(w, b) ==
    [n \in DOMAIN w |-> [c \in Cols(b) |-> DotTo(w[n], b, c, 1)]]

\* w @ b : (N x K) @ (K x B) -> N x B
MatMul(w, b) ==
    [n \in DOMAIN w |-> [c \in Cols(b) |-> DotTo(w[n], b, c, Len(b))]]

(***************************************************************************)
(* Reflectance models: parameter counts and feasible domains.              *)
(***************************************************************************)
BrdfNames == {"Diffuse", "CookTorrance", "CookTorranceF1"}

\* B_d of every model
DiffuseWidth == 3

\* As ParameterCount, CookTorrance without its eta field
ParameterCountNoEta(b) ==
    IF b = "Diffuse" THEN <<>> ELSE [albedo |-> 3, roughness |-> 1]

\* get_parameter_count()[1]: specular field name -> width
ParameterCount(b) ==
    IF b = "Diffuse" THEN <<>>
    ELSE IF b = "CookTorrance" THEN [albedo |-> 3, roughness |-> 1, eta |-> 1]
    ELSE [albedo |-> 3, roughness |-> 1]

RoughnessMin == <<1, 1000000>>
RoughnessMax == <<999999, 1000000>>
EtaMin == <<10001, 10000>>
EtaMax == <<2999, 1000>>

\* Names a function body can read: its parameters and the module's globals
ModuleGlobals ==
    {"np", "torch", "abstractmethod", "abstractstaticmethod", "inner_product",
     "normalize", "Parametrization", "BrdfParametrization", "Diffuse", "Fresnel",
     "Beckmann", "GTR", "SmithG1", "CookTorrance", "CookTorranceF1",
     "BrdfParametrizationFactory"}

\* The parameter list of CookTorrance.enforce_parameter_bounds
CTEnforceParams == <<"self", "parameters">>

\* The name its body reads the dictionary through
CTEnforceDictName == "params"

\* The positional arguments CookTorranceF1 passes on to CookTorrance
F1EnforceArgs == <<"parameters">>

Range(f) == {f[i] : i \in DOMAIN f}

Ok(pd) == [pd |-> pd, exc |-> "none"]
Raise(pd, e) == [pd |-> pd, exc |-> e]

\* Diffuse.enforce_parameter_bounds(parameters)
DiffuseEnforce(pd) == Ok([pd EXCEPT !.diffuse = ClampMin(@, Zero)])

\* The four clamps of CookTorrance.enforce_parameter_bounds, in order
CTClamps(pd) ==
    LET p1 == [pd EXCEPT !.diffuse = ClampMin(@, Zero)]
        p2 == [p1 EXCEPT !.specular.albedo = ClampMin(@, Zero)]
        p3 == [p2 EXCEPT !.specular.roughness = Clamp(@, RoughnessMin, RoughnessMax)]
    IN  IF "eta" \in DOMAIN p3.specular
        THEN [p3 EXCEPT !.specular.eta = Clamp(@, EtaMin, EtaMax)]
        ELSE p3

\* CookTorrance.enforce_parameter_bounds called with the tuple args of
\* positional arguments (self included); pd is the dictionary the caller holds
CTEnforceCall(args, pd) ==
    IF Len(args) # Len(CTEnforceParams) THEN Raise(pd, "TypeError")
    ELSE IF CTEnforceDictName \notin Range(CTEnforceParams) \cup ModuleGlobals
         THEN Raise(pd, "NameError")
    ELSE IF ~({"albedo", "roughness"} \subseteq DOMAIN pd.specular)
         THEN Raise([pd EXCEPT !.diffuse = ClampMin(@, Zero)], "KeyError")
    ELSE Ok(CTClamps(pd))

\* CookTorrance().enforce_parameter_bounds(parameters)
CookTorranceEnforce(pd) == CTEnforceCall(<<"self", "parameters">>, pd)

\* CookTorranceF1().enforce_parameter_bounds(parameters)
CookTorranceF1Enforce(pd) == CTEnforceCall(F1EnforceArgs, pd)

\* brdf.enforce_parameter_bounds(parameters), by the class of brdf
BrdfEnforce(b, pd) ==
    IF b = "Diffuse" THEN DiffuseEnforce(pd)
    ELSE IF b = "CookTorrance" THEN CookTorranceEnforce(pd)
    ELSE CookTorranceF1Enforce(pd)

\* The attributes a Reflectance Model instance has
BrdfAttributes ==
    {"_calculate_NdotHs", "calculate_rhos", "get_parameter_count",
     "enforce_parameter_bounds", "serialize", "deserialize"}

(***************************************************************************)
(* Storages and parameter trees.  A parameter tree is a tensor leaf or a   *)
(* dict of parameter trees.                                                *)
(***************************************************************************)
TensorNode(r) == [tag |-> "tensor", ref |-> r]
DictNode(items) == [tag |-> "dict", items |-> items]
ErrorNode == [tag |-> "error"]

RECURSIVE NextFree(_, _)
NextFree(used, r) == IF r \notin used THEN r ELSE NextFree(used, r + 1)

\* A new storage holding t
Alloc(h, t) ==
    LET r == NextFree(DOMAIN h, 1) IN [h |-> (r :> t) @@ h, ref |-> r]

\* New storages for the tensors ts, in order
RECURSIVE AllocSeq(_, _)
AllocSeq(h, ts) ==
    IF ts = <<>> THEN [h |-> h, refs |-> <<>>]
    ELSE LET a == Alloc(h, Head(ts))
             rest == AllocSeq(a.h, Tail(ts))
         IN  [h |-> rest.h, refs |-> <<a.ref>> \o rest.refs]

RECURSIVE TreeRefs(_)
TreeRefs(node) ==
    IF node.tag = "tensor" THEN {node.ref}
    ELSE IF node.tag = "dict"
         THEN UNION {TreeRefs(node.items[k]) : k \in DOMAIN node.items}
    ELSE {}

RECURSIVE SortedSeq(_)
SortedSeq(S) ==
    IF S = {} THEN <<>>
    ELSE LET m == CHOOSE x \in S : \A y \in S : x <= y
         IN  <<m>> \o SortedSeq(S \ {m})

\* value.detach().clone() for every tensor storage in refs: old ref -> new ref
CloneStorages(h, refs) ==
    LET olds == SortedSeq(refs)
        a == AllocSeq(h, [i \in DOMAIN olds |-> h[olds[i]]])
    IN  [h |-> a.h, to |-> [r \in refs |-> a.refs[CHOOSE i \in DOMAIN olds : olds[i] = r]]]

\* As DetachAndCloneDictRecursive, without the recursion into nested dicts
DetachAndCloneDictShallow(dictionary, to) ==
    IF dictionary.tag # "dict" THEN ErrorNode
    ELSE DictNode([key \in DOMAIN dictionary.items |->
            LET value == dictionary.items[key]
            IN  IF value.tag = "tensor" THEN TensorNode(to[value.ref])
                ELSE DictNode(<<>>)])

\* detach_and_clone_dict_recursive(dictionary), the clones being at to[ref]
RECURSIVE DetachAndCloneDictRecursive(_, _)
DetachAndCloneDictRecursive(dictionary, to) ==
    IF dictionary.tag # "dict" THEN ErrorNode
    ELSE DictNode([key \in DOMAIN dictionary.items |->
            LET value == dictionary.items[key]
            IN  IF value.tag = "tensor" THEN TensorNode(to[value.ref])
                ELSE DetachAndCloneDictRecursive(value, to)])

\* As AttachDictRecursive, without the isinstance check: what is no dict is
\* handed back as it is
AttachDictUnchecked(dictionary) ==
    IF dictionary.tag # "dict" THEN dictionary
    ELSE DictNode([key \in DOMAIN dictionary.items |->
            LET value == dictionary.items[key]
            IN  IF value.tag = "tensor" THEN TensorNode(value.ref) ELSE value])

\* attach_dict_recursive(dictionary): torch.nn.Parameter(value) is a new
\* Parameter on value's own storage
RECURSIVE AttachDictRecursive(_)
AttachDictRecursive(dictionary) ==
    IF dictionary.tag # "dict" THEN ErrorNode
    ELSE DictNode([key \in DOMAIN dictionary.items |->
            LET value == dictionary.items[key]
            IN  IF value.tag = "tensor" THEN TensorNode(value.ref)
                ELSE AttachDictRecursive(value)])

\* Whether a (de)serialization helper ended in error() somewhere in the tree
RECURSIVE HasError(_)
HasError(node) ==
    IF node.tag = "error" THEN TRUE
    ELSE IF node.tag = "dict"
         THEN \E k \in DOMAIN node.items : HasError(node.items[k])
    ELSE FALSE

\* The keys of a dict in some fixed order
RECURSIVE SortedKeys(_)
SortedKeys(S) ==
    IF S = {} THEN <<>>
    ELSE LET k == CHOOSE x \in S : TRUE IN <<k>> \o SortedKeys(S \ {k})

\* The values a parameter tree holds: tensor values in place of references
RECURSIVE Deref(_, _)
Deref(h, node) ==
    IF node.tag = "tensor" THEN h[node.ref]
    ELSE [k \in DOMAIN node.items |-> Deref(h, node.items[k])]

\* In-place write of the values vals through the references of node
RECURSIVE WriteBack(_, _, _)
WriteBack(h, node, vals) ==
    IF node.tag = "tensor" THEN [h EXCEPT ![node.ref] = vals]
    ELSE LET keys == SortedKeys(DOMAIN node.items)
             Step[i \in 0..Len(keys)] ==
                 IF i = 0 THEN h
                 ELSE WriteBack(Step[i - 1], node.items[keys[i]], vals[keys[i]])
         IN  Step[Len(keys)]

(***************************************************************************)
(* BaseSpecularMaterials.  An exception ends the call it is raised in and  *)
(* is left to the caller, who may go on using the instance; what the call  *)
(* wrote before raising stays written.                                     *)
(***************************************************************************)
Self == "A"
NoCkpt == <<>>
NoRet == <<>>
NoCall == <<>>
NoOut == <<>>

\* The device diffuse_materials lives on, and the devices initialize may name
HostDevice == "cpu"
Devices == {"cpu", "cuda"}

\* The method of the bound Reflectance Model that enforce_parameter_bounds calls
EnforceCallee == "enforce_brdf_parameter_bounds"

\* The default of initialize's nr_bases
NrBasesDefault == 2

SpecularOrder == <<"albedo", "roughness", "eta">>

Initialized == DOMAIN inst # {}

WeightsRef == inst.base_weights
DiffuseRef == inst.brdf_parameters.items.diffuse.ref
SpecularNames == DOMAIN inst.brdf_parameters.items.specular.items
SpecularRef(name) == inst.brdf_parameters.items.specular.items[name].ref

\* Every storage some name of the program still refers to
Live(i, c, k, d) ==
    {d}
    \cup (IF DOMAIN i = {} THEN {} ELSE {i.base_weights} \cup TreeRefs(i.brdf_parameters))
    \cup (IF c = NoCkpt THEN {} ELSE {c[1]} \cup TreeRefs(c[2]))
    \cup {k[j].value.diffuse : j \in DOMAIN k}

Collect(h, i, c, k, d) == [r \in DOMAIN h \cap Live(i, c, k, d) |-> h[r]]

\* initialize(nr_points, diffuse_materials, device, nr_bases)
InitializeResult(h, b, d, device, nr_bases) ==
    LET counts == ParameterCount(b)
        names == SelectSeq(SpecularOrder, LAMBDA n : n \in DOMAIN counts)
        \* diffuse_materials.detach().to(device): the same storage when the
        \* array already is on device, a copy otherwise
        dif == IF device = HostDevice THEN [h |-> h, ref |-> d] ELSE Alloc(h, h[d])
        spc == AllocSeq(dif.h, [i \in DOMAIN names |-> Full(nr_bases, counts[names[i]], One)])
        wts == Alloc(spc.h, Full(NrPoints, nr_bases, Div(One, <<nr_bases, 1>>)))
    IN  [h |-> wts.h,
         inst |-> [brdf_parameters |-> DictNode(
                      [diffuse |-> TensorNode(dif.ref),
                       specular |-> DictNode(
                           [n \in Range(names) |->
                               TensorNode(spc.refs[CHOOSE i \in DOMAIN names : names[i] = n])])]),
                   base_weights |-> wts.ref]]

Initialize(device, nr_bases) ==
    /\ ops < MaxOps
    /\ LET r == InitializeResult(heap, brdf, diffuse_init, device, nr_bases)
       IN  /\ inst' = r.inst
           /\ heap' = Collect(r.h, r.inst, ckpt, cache, diffuse_init)
    /\ last' = "initialize"
    /\ prev' = last
    /\ raised' = "none"
    /\ ops' = ops + 1
    /\ UNCHANGED <<brdf, diffuse_init, ckpt, cache, ret, nget, call, out>>

\* The body of get_brdf_parameters: the dict it builds
BrdfParametersOf(h, i) ==
    [diffuse |-> i.brdf_parameters.items.diffuse.ref,
     specular |-> [name \in DOMAIN i.brdf_parameters.items.specular.items |->
                      MatMul(h[i.base_weights],
                             h[i.brdf_parameters.items.specular.items[name].ref])]]

\* lru_cache(maxsize=1): the entry for key, if it is the one held
CacheLookup(c, key) == {c[j].value : j \in {j \in DOMAIN c : c[j].key = key}}

\* lru_cache(maxsize=1): the cache after a miss on key stored value
CacheStore(c, key, value) == <<[key |-> key, value |-> value]>>

\* What the caller reads in a returned dict at the time of the return
Seen(h, value) == [diffuse |-> h[value.diffuse], specular |-> value.specular]

GetBrdfParameters ==
    /\ ops < MaxOps
    /\ LET hit == CacheLookup(cache, Self)
       IN  IF hit # {}
           THEN /\ ret' = Seen(heap, CHOOSE v \in hit : TRUE)
                /\ raised' = "none"
                /\ UNCHANGED cache
           ELSE IF ~Initialized
           THEN /\ ret' = NoRet
                /\ raised' = "AttributeError"
                /\ UNCHANGED cache
           ELSE LET value == BrdfParametersOf(heap, inst)
                IN  /\ cache' = CacheStore(cache, Self, value)
                    /\ ret' = Seen(heap, value)
                    /\ raised' = "none"
    /\ heap' = Collect(heap, inst, ckpt, cache', diffuse_init)
    /\ last' = "get_brdf_parameters"
    /\ prev' = last
    /\ nget' = nget + 1
    /\ ops' = ops + 1
    /\ UNCHANGED <<brdf, inst, diffuse_init, ckpt, call, out>>

\* As ProjectWeights, with the row sums guarded against zero by a small term
ProjectWeightsGuarded(w) ==
    LET c == Clamp(w, Zero, One)
    IN  DivRows(c, [i \in DOMAIN c |-> Add(RowSum(c)[i], <<1, 100>>)])

\* base_weights.data.clamp_(min=0., max=1.) then .div_(row sums)
ProjectWeights(w) ==
    LET c == Clamp(w, Zero, One) IN DivRows(c, RowSum(c))

\* The call on the bound Reflectance Model that ends enforce_parameter_bounds
EnforceBasis(h, b, tree) ==
    IF EnforceCallee \notin BrdfAttributes THEN [h |-> h, exc |-> "AttributeError"]
    ELSE LET r == BrdfEnforce(b, Deref(h, tree))
         IN  [h |-> WriteBack(h, tree, r.pd), exc |-> r.exc]

EnforceParameterBounds ==
    /\ ops < MaxOps
    /\ IF ~Initialized
       THEN /\ raised' = "AttributeError"
            /\ UNCHANGED heap
       ELSE LET h1 == [heap EXCEPT ![WeightsRef] = ProjectWeights(@)]
                r == EnforceBasis(h1, brdf, inst.brdf_parameters)
            IN  /\ heap' = r.h
                /\ raised' = r.exc
    /\ last' = "enforce_parameter_bounds"
    /\ prev' = last
    /\ ops' = ops + 1
    /\ UNCHANGED <<brdf, inst, diffuse_init, ckpt, cache, ret, nget, call, out>>

\* serialize()
SerializeResult(h, i) ==
    LET w == Alloc(h, h[i.base_weights])
        c == CloneStorages(w.h, TreeRefs(i.brdf_parameters))
    IN  [h |-> c.h, ckpt |-> <<w.ref, DetachAndCloneDictRecursive(i.brdf_parameters, c.to)>>]

Serialize ==
    /\ ops < MaxOps
    /\ IF ~Initialized
       THEN /\ raised' = "AttributeError"
            /\ UNCHANGED <<heap, ckpt>>
       ELSE LET r == SerializeResult(heap, inst)
            IN  /\ ckpt' = r.ckpt
                /\ heap' = Collect(r.h, inst, r.ckpt, cache, diffuse_init)
                /\ raised' = "none"
    /\ last' = "serialize"
    /\ prev' = last
    /\ ops' = ops + 1
    /\ UNCHANGED <<brdf, inst, diffuse_init, cache, ret, nget, call, out>>

\* deserialize(*args)
DeserializeResult(args) ==
    [base_weights |-> args[1], brdf_parameters |-> AttachDictRecursive(args[2])]

Deserialize ==
    /\ ops < MaxOps
    /\ ckpt # NoCkpt
    /\ inst' = DeserializeResult(ckpt)
    /\ heap' = Collect(heap, inst', ckpt, cache, diffuse_init)
    /\ last' = "deserialize"
    /\ prev' = last
    /\ raised' = "none"
    /\ ops' = ops + 1
    /\ UNCHANGED <<brdf, diffuse_init, ckpt, cache, ret, nget, call, out>>

(***************************************************************************)
(* The outer optimizer writes parameter rows in place.                     *)
(***************************************************************************)
OneHot(K, k) == [j \in 1..K |-> IF j = k THEN One ELSE Zero]

WeightRows(K) ==
    {OneHot(K, k) : k \in 1..K}
    \cup {[j \in 1..K |-> Zero], [j \in 1..K |-> IF j = 1 THEN MinusOne ELSE Two]}

ChannelRows == {<<MinusOne, Zero, Two>>, <<Half, Half, Half>>}

\* New values of a basis row of the specular field name
BasisRows(name) ==
    IF name = "roughness" THEN {<<Zero>>, <<Half>>, <<Two>>}
    ELSE IF name = "eta" THEN {<<Zero>>, <<Two>>, <<Three>>}
    ELSE ChannelRows

OptimizerStepWeights ==
    /\ ops < MaxOps
    /\ Initialized
    /\ \E n \in DOMAIN heap[WeightsRef] :
       \E row \in WeightRows(Len(heap[WeightsRef][n])) :
           heap' = [heap EXCEPT ![WeightsRef][n] = row]
    /\ last' = "step"
    /\ prev' = last
    /\ raised' = "none"
    /\ ops' = ops + 1
    /\ UNCHANGED <<brdf, inst, diffuse_init, ckpt, cache, ret, nget, call, out>>

OptimizerStepDiffuse ==
    /\ ops < MaxOps
    /\ Initialized
    /\ \E n \in DOMAIN heap[DiffuseRef] :
       \E row \in ChannelRows :
           heap' = [heap EXCEPT ![DiffuseRef][n] = row]
    /\ last' = "step"
    /\ prev' = last
    /\ raised' = "none"
    /\ ops' = ops + 1
    /\ UNCHANGED <<brdf, inst, diffuse_init, ckpt, cache, ret, nget, call, out>>

OptimizerStepBasis ==
    /\ ops < MaxOps
    /\ Initialized
    /\ \E name \in SpecularNames :
       \E k \in DOMAIN heap[SpecularRef(name)] :
       \E row \in BasisRows(name) :
           heap' = [heap EXCEPT ![SpecularRef(name)][k] = row]
    /\ last' = "step"
    /\ prev' = last
    /\ raised' = "none"
    /\ ops' = ops + 1
    /\ UNCHANGED <<brdf, inst, diffuse_init, ckpt, cache, ret, nget, call, out>>

\* brdf_parametrization.enforce_parameter_bounds(brdf_parameters), called on the
\* instance's basis dictionary by the caller itself
BrdfEnforceParameterBounds ==
    /\ ops < MaxOps
    /\ Initialized
    /\ LET r == BrdfEnforce(brdf, Deref(heap, inst.brdf_parameters))
       IN  /\ heap' = WriteBack(heap, inst.brdf_parameters, r.pd)
           /\ raised' = r.exc
    /\ last' = "brdf.enforce_parameter_bounds"
    /\ prev' = last
    /\ ops' = ops + 1
    /\ UNCHANGED <<brdf, inst, diffuse_init, ckpt, cache, ret, nget, call, out>>

\* The diffuse estimate of every point that the caller starts from
InitialDiffuseRow == <<MinusOne, Zero, Two>>

\* The state after BaseSpecularMaterials(brdf_parametrization) was constructed
\* and the caller holds its diffuse estimate
Init ==
    /\ brdf \in BrdfNames
    /\ heap = (1 :> [n \in 1..NrPoints |-> InitialDiffuseRow])
    /\ diffuse_init = 1
    /\ inst = <<>>
    /\ ckpt = NoCkpt
    /\ cache = <<>>
    /\ ret = NoRet
    /\ last = "construct"
    /\ prev = "construct"
    /\ raised = "none"
    /\ nget = 0
    /\ ops = 0
    /\ call = NoCall
    /\ out = NoOut

Next ==
    \/ \E device \in Devices : \E nr_bases \in {1, NrBasesDefault} : Initialize(device, nr_bases)
    \/ GetBrdfParameters
    \/ EnforceParameterBounds
    \/ BrdfEnforceParameterBounds
    \/ Serialize
    \/ Deserialize
    \/ OptimizerStepWeights
    \/ OptimizerStepDiffuse
    \/ OptimizerStepBasis

Spec == Init /\ [][Next]_vars

(***************************************************************************)
(* Properties of BaseSpecularMaterials and of the bounds projections.      *)
(***************************************************************************)
\* The parameter values the instance holds
Values ==
    IF Initialized
    THEN [base_weights |-> heap[WeightsRef],
          brdf_parameters |-> Deref(heap, inst.brdf_parameters)]
    ELSE <<>>

Entries(t) == {t[i][j] : i \in DOMAIN t, j \in DOMAIN t[1]}

InRange(x, lo, hi) == Leq(lo, x) /\ Leq(x, hi)

\* The feasible domain of Reflectance Model b on the parameter dictionary pd
Feasible(b, pd) ==
    /\ (\A x \in Entries(pd.diffuse) : Leq(Zero, x))
    /\ b # "Diffuse" =>
        /\ (\A x \in Entries(pd.specular.albedo) : Leq(Zero, x))
        /\ (\A x \in Entries(pd.specular.roughness) : InRange(x, RoughnessMin, RoughnessMax))
        /\ "eta" \in DOMAIN pd.specular =>
               (\A x \in Entries(pd.specular.eta) : InRange(x, EtaMin, EtaMax))

\* C1: after BaseSpecularMaterials.enforce_parameter_bounds every mixture
\* weight lies in [0,1] and every point's weight row sums to 1, whatever the
\* weights were before the call.
C1_WeightsOnSimplex ==
    (last = "enforce_parameter_bounds" /\ Initialized) =>
        /\ (\A x \in Entries(heap[WeightsRef]) : InRange(x, Zero, One))
        /\ \A n \in DOMAIN heap[WeightsRef] : RowSum(heap[WeightsRef])[n] = One

\* The sum over the bases k of w[k] * b[k][c]
RECURSIVE Mixture(_, _, _, _)
Mixture(w, b, c, ks) ==
    IF ks = {} THEN Zero
    ELSE LET k == CHOOSE x \in ks : TRUE
         IN  Add(Mul(w[k], b[k][c]), Mixture(w, b, c, ks \ {k}))

\* Whether the per-point array arr is the mixture of the current bases of the
\* specular field name under the current weights
IsCurrentMixture(name, arr) ==
    LET w == heap[WeightsRef]
        b == heap[SpecularRef(name)]
    IN  /\ DOMAIN arr = DOMAIN w
        /\ \A n \in DOMAIN w :
            /\ DOMAIN arr[n] = Cols(b)
            /\ \A c \in Cols(b) : arr[n][c] = Mixture(w[n], b, c, DOMAIN b)

\* C2: every get_brdf_parameters call returns, for each specular field,
\* base_weights @ basis of the parameter values current at that call, also
\* when a mutation came between it and an earlier call.
C2_GetReturnsCurrentMixture ==
    (last = "get_brdf_parameters" /\ raised = "none") =>
        /\ DOMAIN ret.specular = SpecularNames
        /\ \A name \in SpecularNames : IsCurrentMixture(name, ret.specular[name])

\* C3: serialize() leaves the parameter values as they are, and
\* deserialize(*serialize()) leaves the mixture weights and every entry of
\* the nested basis dictionary (same keys, same nesting) with the values
\* they had.
C3_RoundTrip ==
    [][/\ (last' = "serialize" => Values' = Values)
       /\ (last = "serialize" /\ raised = "none" /\ last' = "deserialize")
              => Values' = Values]_vars

\* A round trip of an instance whose weights and bases were written before
C3_Witness ==
    /\ prev = "serialize"
    /\ last = "deserialize"
    /\ WeightsRef = ckpt[1]
    /\ SpecularNames # {}
    /\ \E n \in DOMAIN heap[WeightsRef] : heap[WeightsRef][n][1] = One

C5_CookTorranceProjects ==
    (last = "brdf.enforce_parameter_bounds" /\ brdf \in {"CookTorrance", "CookTorranceF1"}) =>
        /\ raised = "none"
        /\ Feasible(brdf, Deref(heap, inst.brdf_parameters))

\* C6: when BaseSpecularMaterials.enforce_parameter_bounds returns, the
\* diffuse tensor and every specular basis field satisfy the feasible domain
\* of the bound Reflectance Model.
C6_BasisProjected ==
    (last = "enforce_parameter_bounds" /\ Initialized) =>
        /\ raised = "none"
        /\ Feasible(brdf, Deref(heap, inst.brdf_parameters))

\* C10: the first get_brdf_parameters call returns the instance's diffuse
\* tensor as 'diffuse' and, for every specular field, the per-point mixture
\* of the bases; a point whose weight row is one-hot on basis k gets basis
\* k's values exactly.
C10_FirstGet ==
    (last = "get_brdf_parameters" /\ nget = 1 /\ raised = "none") =>
        /\ ret.diffuse = heap[DiffuseRef]
        /\ cache[1].value.diffuse = DiffuseRef
        /\ DOMAIN ret.specular = SpecularNames
        /\ \A name \in SpecularNames :
            /\ IsCurrentMixture(name, ret.specular[name])
            /\ \A n \in DOMAIN heap[WeightsRef] : \A k \in DOMAIN heap[SpecularRef(name)] :
                   heap[WeightsRef][n] = OneHot(Len(heap[WeightsRef][n]), k)
                       => ret.specular[name][n] = heap[SpecularRef(name)][k]

\* A first call in which point 1 is one-hot on basis 2, the two bases differ
\* and point 2 still mixes them evenly
C10_Witness ==
    /\ last = "get_brdf_parameters" /\ nget = 1 /\ raised = "none"
    /\ "roughness" \in SpecularNames
    /\ heap[WeightsRef] = <<<<Zero, One>>, <<Half, Half>>>>
    /\ heap[SpecularRef("roughness")] = <<<<One>>, <<Half>>>>
    /\ ret.specular.roughness = <<<<Half>>, <<<<3, 4>>>>>>

(***************************************************************************)
(* Floating point for the reflectance evaluation.  calculate_rhos divides  *)
(* by sums in which a term of roughness^4 meets 1, so its outcome rests on *)
(* rounding: a float is modelled as a decimal floating-point number        *)
(* <<m, e>> of value m * 10^e with a signed 7-digit mantissa               *)
(* (10^6 <= |m| < 10^7; float32 carries 24 bits, about 7.2 digits),        *)
(* <<0, 0>> for zero, and exponent 999 for the specials: <<1, 999>> +Inf,  *)
(* <<-1, 999>> -Inf, <<0, 999>> NaN.  Every operation rounds its exact     *)
(* result to 7 digits; results beyond float32's range become Inf or 0.     *)
(* Zero carries no sign.                                                   *)
(***************************************************************************)
FNaN == <<0, 999>>
FPosInf == <<1, 999>>
FNegInf == <<-1, 999>>
FZero == <<0, 0>>
FOne == <<1000000, -6>>

FIsNaN(x) == x = FNaN
FIsInf(x) == x[2] = 999 /\ x[1] # 0
FIsFinite(x) == x[2] # 999
FIsZero(x) == x = FZero
FInfOf(s) == IF s < 0 THEN FNegInf ELSE FPosInf

RECURSIVE Digits(_)
Digits(n) == IF n < 10 THEN 1 ELSE 1 + Digits(n \div 10)

\* The float nearest to s * n * 10^e, for a natural n and a sign s
FNorm(s, n, e) ==
    IF n = 0 THEN FZero
    ELSE LET k == Digits(n)
             shift == k - 7
             q0 == IF shift > 0 THEN n \div (10 ^ shift) ELSE n * (10 ^ (-shift))
             r0 == IF shift > 0 THEN n % (10 ^ shift) ELSE 0
             up == shift > 0 /\ r0 >= (10 ^ shift) - r0
             q1 == IF up THEN q0 + 1 ELSE q0
             m == IF q1 = 10000000 THEN 1000000 ELSE q1
             x == IF q1 = 10000000 THEN e + shift + 1 ELSE e + shift
         IN  IF x + 6 > 38 THEN FInfOf(s)
             ELSE IF x + 6 < -45 THEN FZero
             ELSE <<s * m, x>>

\* The float of the integer n, and of the decimal n * 10^e
FInt(n) == FNorm(Sgn(n), Abs(n), 0)
FDec(n, e) == FNorm(Sgn(n), Abs(n), e)

FNeg(x) == IF FIsNaN(x) THEN x ELSE <<-x[1], x[2]>>

FMul(a, b) ==
    IF FIsNaN(a) \/ FIsNaN(b) THEN FNaN
    ELSE IF FIsInf(a) \/ FIsInf(b)
         THEN (IF a[1] = 0 \/ b[1] = 0 THEN FNaN ELSE FInfOf(Sgn(a[1]) * Sgn(b[1])))
    ELSE IF a[1] = 0 \/ b[1] = 0 THEN FZero
    ELSE LET x == Abs(a[1])
             y == Abs(b[1])
             xh == x \div 10000
             xl == x % 10000
             yh == y \div 10000
             yl == y % 10000
             hh == xh * yh
             mid == xh * yl + xl * yh
             ll == xl * yl
             low == (mid % 100) * 10000 + (ll % 1000000)
             u == hh * 100 + (mid \div 100) + (ll \div 1000000) + (low \div 1000000)
             rest == low % 1000000
             n == IF u < 10000000 /\ rest >= 500000 THEN u + 1 ELSE u
         IN  FNorm(Sgn(a[1]) * Sgn(b[1]), n, a[2] + b[2] + 6)

\* The first k digits of num / den in long division, as an integer
RECURSIVE LongDiv(_, _, _)
LongDiv(num, den, k) ==
    IF k = 0 THEN 0
    ELSE (num \div den) * (10 ^ (k - 1)) + LongDiv((num % den) * 10, den, k - 1)

FDiv(a, b) ==
    IF FIsNaN(a) \/ FIsNaN(b) THEN FNaN
    ELSE IF FIsInf(b) THEN (IF FIsInf(a) THEN FNaN ELSE FZero)
    ELSE IF b[1] = 0 THEN (IF a[1] = 0 THEN FNaN ELSE FInfOf(Sgn(a[1])))
    ELSE IF FIsInf(a) THEN FInfOf(Sgn(a[1]) * Sgn(b[1]))
    ELSE IF a[1] = 0 THEN FZero
    ELSE FNorm(Sgn(a[1]) * Sgn(b[1]), LongDiv(Abs(a[1]), Abs(b[1]), 9), a[2] - b[2] - 8)

FAdd(a, b) ==
    IF FIsNaN(a) \/ FIsNaN(b) THEN FNaN
    ELSE IF FIsInf(a) THEN (IF FIsInf(b) /\ b # a THEN FNaN ELSE a)
    ELSE IF FIsInf(b) THEN b
    ELSE IF a[1] = 0 THEN b
    ELSE IF b[1] = 0 THEN a
    ELSE LET big == IF a[2] >= b[2] THEN a ELSE b
             small == IF a[2] >= b[2] THEN b ELSE a
             d == big[2] - small[2]
         IN  IF d > 8 THEN big
             ELSE LET sm == Abs(small[1]) * 100
                      sh == sm \div (10 ^ d)
                      shr == IF 2 * (sm % (10 ^ d)) >= 10 ^ d THEN sh + 1 ELSE sh
                      sum == big[1] * 100 + Sgn(small[1]) * shr
                  IN  FNorm(Sgn(sum), Abs(sum), big[2] - 2)

FSub(a, b) == FAdd(a, FNeg(b))

\* a < b, FALSE when either is NaN
FLess(a, b) ==
    IF FIsNaN(a) \/ FIsNaN(b) THEN FALSE
    ELSE IF FIsInf(a) \/ FIsInf(b)
         THEN (IF FIsInf(a) /\ FIsInf(b) THEN a[1] < b[1]
               ELSE IF FIsInf(a) THEN a[1] < 0 ELSE b[1] > 0)
    ELSE LET d == FSub(a, b) IN d[1] < 0 /\ FIsFinite(d)

FLeq(a, b) == ~FIsNaN(a) /\ ~FIsNaN(b) /\ ~FLess(b, a)

\* Tensor.clamp_(min=lo, max=hi) of one float
FClamp(x, lo, hi) ==
    IF FIsNaN(x) THEN x
    ELSE IF FLess(x, lo) THEN lo
    ELSE IF FLess(hi, x) THEN hi
    ELSE x

\* The largest r with r * r <= n, searched in lo..hi
RECURSIVE ISqrtIn(_, _, _)
ISqrtIn(n, lo, hi) ==
    IF lo >= hi THEN lo
    ELSE LET mid == (lo + hi + 1) \div 2
         IN  IF mid * mid <= n THEN ISqrtIn(n, mid, hi) ELSE ISqrtIn(n, lo, mid - 1)

FHalf == <<5000000, -7>>

\* One Newton step towards the square root of a from x
NewtonSqrt(a, x) == FMul(FHalf, FAdd(x, FDiv(a, x)))

\* Tensor.sqrt() of one float
FSqrt(a) ==
    IF FIsNaN(a) THEN FNaN
    ELSE IF a[1] < 0 THEN FNaN
    ELSE IF FIsInf(a) \/ a[1] = 0 THEN a
    ELSE LET even == a[2] % 2 = 0
             n == IF even THEN a[1] * 100 ELSE a[1] * 10
             e == IF even THEN a[2] - 2 ELSE a[2] - 1
             x0 == FNorm(1, ISqrtIn(n, 0, 46340), e \div 2)
         IN  NewtonSqrt(a, NewtonSqrt(a, x0))

\* ln(10) and sqrt(10) to 7 digits
FLn10 == <<2302585, -6>>
FSqrt10 == <<3162278, -6>>

\* 2 * (z + z^3/3 + ... ), the terms from z^k on, k odd, up to z^29
RECURSIVE AtanhSeries(_, _, _)
AtanhSeries(zk, z2, k) ==
    IF k > 29 \/ FIsZero(zk) THEN FZero
    ELSE FAdd(FDiv(FMul(FInt(2), zk), FInt(k)), AtanhSeries(FMul(zk, z2), z2, k + 2))

\* ln(y) for 1 <= y <= sqrt(10), by ln(y) = 2 atanh((y - 1) / (y + 1))
LnNearOne(y) ==
    LET z == FDiv(FSub(y, FOne), FAdd(y, FOne))
    IN  AtanhSeries(z, FMul(z, z), 1)

\* Tensor.log() of one float
FLog(a) ==
    IF FIsNaN(a) THEN FNaN
    ELSE IF a[1] < 0 THEN FNaN
    ELSE IF FIsInf(a) THEN a
    ELSE IF a[1] = 0 THEN FNegInf
    ELSE LET x == <<a[1], -6>>
             k == a[2] + 6
         IN  IF FLess(x, FSqrt10)
             THEN FAdd(FMul(FInt(k), FLn10), LnNearOne(x))
             ELSE FSub(FMul(FInt(k + 1), FLn10), LnNearOne(FDiv(FInt(10), x)))

(***************************************************************************)
(* Reflectance evaluation.  Ls is indexed [n][l][c], Vs and normals        *)
(* [n][c], an N x L x 1 tensor [n][l], an N x 1 tensor [n][1].  The        *)
(* broadcasts torch performs are written out.  inner_product and normalize *)
(* come from utils.vectors, which is outside the sources at hand: they are *)
(* taken as the sum of products over the last axis and the division by     *)
(* the Euclidean norm.                                                     *)
(***************************************************************************)
Channels == 1..3

FPi == <<3141593, -6>>

InnerProduct(a, b) == FAdd(FAdd(FMul(a[1], b[1]), FMul(a[2], b[2])), FMul(a[3], b[3]))

DivideBy(v, norm) == [c \in Channels |-> FDiv(v[c], norm)]

Normalize(v) == DivideBy(v, FSqrt(InnerProduct(v, v)))

\* Hs = normalize(Ls + Vs.view(N, 1, 3))
HalfVectors(Ls, Vs) ==
    [n \in DOMAIN Ls |-> [l \in DOMAIN Ls[n] |->
        Normalize([c \in Channels |-> FAdd(Ls[n][l][c], Vs[n][c])])]]

\* NdotHs = inner_product(normals.view(-1, 1, 3), Hs)
NdotHsOf(normals, Hs) ==
    [Hs |-> Hs,
     NdotHs |-> [n \in DOMAIN Hs |-> [l \in DOMAIN Hs[n] |->
                   InnerProduct(normals[n], Hs[n][l])]]]

\* BrdfParametrization._calculate_NdotHs(Ls, Vs, normals)
CalculateNdotHs(Ls, Vs, normals) == NdotHsOf(normals, HalfVectors(Ls, Vs))

\* The shape of a tensor of three axes
Shape3(t) == <<Len(t), Len(t[1]), Len(t[1][1])>>

\* parameters['diffuse'].view(-1, 1, 3) / np.pi
DiffuseOverPi(diffuse) ==
    [n \in DOMAIN diffuse |-> <<[c \in Channels |-> FDiv(diffuse[n][c], FPi)]>>]

NoError(rhos, NdotHs) == [rhos |-> rhos, NdotHs |-> NdotHs, exc |-> "none"]
Error(e) == [rhos |-> <<>>, NdotHs |-> <<>>, exc |-> e]

\* Diffuse().calculate_rhos(Ls, Vs, normals, parameters)
DiffuseCalculateRhos(Ls, Vs, normals, parameters) ==
    NoError(DiffuseOverPi(parameters.diffuse), CalculateNdotHs(Ls, Vs, normals).NdotHs)

FSquare(x) == FMul(x, x)

\* The Fresnel equations for both polarizations, from the two cosines
FresnelEquations(cos_thetas_env, cos_thetas_mat, p_eta_mat) ==
    LET r_p == FDiv(FSub(FMul(p_eta_mat, cos_thetas_env), cos_thetas_mat),
                    FAdd(FMul(p_eta_mat, cos_thetas_env), cos_thetas_mat))
        r_s == FDiv(FSub(cos_thetas_env, FMul(p_eta_mat, cos_thetas_mat)),
                    FAdd(cos_thetas_env, FMul(p_eta_mat, cos_thetas_mat)))
    IN  FDiv(FAdd(FSquare(r_p), FSquare(r_s)), FInt(2))

\* Fresnel(NdotLs, p_eta_mat), one entry
Fresnel(cos_thetas_env, p_eta_mat) ==
    FresnelEquations(
        cos_thetas_env,
        FDiv(FSqrt(FSub(FAdd(FSquare(cos_thetas_env), FSquare(p_eta_mat)), FOne)),
             p_eta_mat),
        p_eta_mat)

\* GTR(NdotHs, p_roughness) with the default gamma = 1, one entry
GTR(NdotHs, p_roughness) ==
    LET cosNH2 == FClamp(FSquare(NdotHs), FZero, FOne)
        p_roughness2 == FSquare(p_roughness)
        cs == FDiv(FSub(p_roughness2, FOne), FLog(p_roughness2))
    IN  FDiv(cs, FAdd(FOne, FMul(FSub(p_roughness2, FOne), cosNH2)))

\* The shadowing value of SmithG1 from sin_thetas and prelims
SmithGs(sin_thetas, prelims) ==
    IF FIsZero(sin_thetas) THEN FOne
    ELSE IF FLeq(FDec(16, -1), prelims) THEN FOne
    ELSE FDiv(FAdd(FMul(FDec(3535, -3), prelims), FMul(FDec(2181, -3), FSquare(prelims))),
              FAdd(FAdd(FOne, FMul(FDec(2276, -3), prelims)),
                   FMul(FDec(2577, -3), FSquare(prelims))))

\* SmithG1 from the clamped cosine and its sine
SmithG1Clamped(cos_thetas, sin_thetas, p_roughness) ==
    [NdotWs |-> cos_thetas,
     Gs |-> SmithGs(sin_thetas, FDiv(FDiv(cos_thetas, sin_thetas), p_roughness))]

SinOf(cos_thetas) == FSqrt(FSub(FOne, FSquare(cos_thetas)))

\* SmithG1(NdotWs, p_roughness), one entry; NdotWs.clamp_ writes the clamped
\* cosine back into the caller's tensor, so it is returned beside Gs
SmithG1(NdotWs, p_roughness) ==
    SmithG1Clamped(FClamp(NdotWs, FZero, FOne), SinOf(FClamp(NdotWs, FZero, FOne)),
                   p_roughness)

\* CTs[CTs != CTs] = 0
\* The specular term as computed, with no entry replaced
KeepNaN(x) == x

\* CTs[CTs != CTs] = 0
GuardNaN(x) == IF FIsNaN(x) THEN FZero ELSE x

\* rhos of one point and light from the terms: p_diffuse / pi + CTs, with
\* CTs = p_specular * (Fs * Ds * Gs) / (4 pi NdotLs NdotVs), NaN replaced by 0
CTRhosEntry(p_diffuse, p_specular, Fs, Ds, GL, GV) ==
    [c \in Channels |->
        FAdd(FDiv(p_diffuse[c], FPi),
             GuardNaN(FDiv(FMul(p_specular[c], FMul(FMul(Fs, Ds), FMul(GL.Gs, GV.Gs))),
                           FMul(FMul(FMul(FInt(4), FPi), GL.NdotWs), GV.NdotWs))))]

\* The Fresnel term of one point and light: optional, 1 without eta
CTFs(VdotHs, specular, n) ==
    IF "eta" \in DOMAIN specular THEN Fresnel(VdotHs, specular.eta[n][1]) ELSE FOne

\* rhos of one point and light, with p_roughness the squared roughness parameter
CTRhosAt(Ls, Vs, normals, parameters, half, n, l, p_roughness) ==
    CTRhosEntry(parameters.diffuse[n], parameters.specular.albedo[n],
                CTFs(InnerProduct(Vs[n], half.Hs[n][l]), parameters.specular, n),
                GTR(half.NdotHs[n][l], p_roughness),
                SmithG1(InnerProduct(normals[n], Ls[n][l]), p_roughness),
                SmithG1(InnerProduct(normals[n], Vs[n]), p_roughness))

\* The body of CookTorrance.calculate_rhos after the half vectors
CTRhosFrom(Ls, Vs, normals, parameters, half) ==
    NoError([n \in DOMAIN Ls |-> [l \in DOMAIN Ls[n] |->
                CTRhosAt(Ls, Vs, normals, parameters, half, n, l,
                         FSquare(parameters.specular.roughness[n][1]))]],
            half.NdotHs)

\* The body of CookTorrance.calculate_rhos
CookTorranceRhos(Ls, Vs, normals, parameters) ==
    CTRhosFrom(Ls, Vs, normals, parameters, CalculateNdotHs(Ls, Vs, normals))

\* The parameters of CookTorrance.calculate_rhos and the arguments
\* CookTorranceF1.calculate_rhos passes to it, called on the class
CTRhosParams == <<"self", "Ls", "Vs", "normals", "parameters">>
F1RhosArgs == <<"Ls", "Vs", "normals">>

\* A call of the function CookTorrance.calculate_rhos with the arguments args
CTRhosCall(args, Ls, Vs, normals, parameters) ==
    IF Len(args) # Len(CTRhosParams) THEN Error("TypeError")
    ELSE CookTorranceRhos(Ls, Vs, normals, parameters)

\* CookTorrance().calculate_rhos(Ls, Vs, normals, parameters)
CookTorranceCalculateRhos(Ls, Vs, normals, parameters) ==
    CTRhosCall(<<"self", "Ls", "Vs", "normals", "parameters">>, Ls, Vs, normals, parameters)

\* CookTorranceF1().calculate_rhos(Ls, Vs, normals, parameters)
CookTorranceF1CalculateRhos(Ls, Vs, normals, parameters) ==
    CTRhosCall(F1RhosArgs, Ls, Vs, normals, parameters)

\* calculate_rhos of the reflectance model b
CalculateRhos(b, Ls, Vs, normals, parameters) ==
    IF b = "Diffuse" THEN DiffuseCalculateRhos(Ls, Vs, normals, parameters)
    ELSE IF b = "CookTorrance" THEN CookTorranceCalculateRhos(Ls, Vs, normals, parameters)
    ELSE CookTorranceF1CalculateRhos(Ls, Vs, normals, parameters)

(***************************************************************************)
(* The evaluation of one reflectance model on inputs drawn from small      *)
(* sets: a model instance is constructed and calculate_rhos is called on   *)
(* it once.  The directions are unit vectors with exact decimal            *)
(* coordinates, about the normal (0, 0, 1).                                *)
(***************************************************************************)
MaxLights == 2

Up == <<FZero, FZero, FOne>>
Tilted == <<FDec(6, -1), FZero, FDec(8, -1)>>
Mirrored == <<FDec(-6, -1), FZero, FDec(8, -1)>>
Grazing == <<FOne, FZero, FZero>>
Below == <<FDec(6, -1), FZero, FDec(-8, -1)>>

LightDirs == <<Up, Tilted, Grazing, Below>>
ViewDirs == {Up, Mirrored, Grazing}

\* The float of the rational q
FRat(q) == FDiv(FInt(q[1]), FInt(q[2]))

RoughnessInputs == {FRat(RoughnessMin), FDec(5, -1), FRat(RoughnessMax), FOne}
EtaInputs == {FRat(EtaMin), FDec(15, -1), FRat(EtaMax)}
AlbedoInputs == {FZero, FOne}

\* L lights per point, the directions of LightDirs from the s-th on
LightsFrom(s, L) ==
    [n \in 1..NrPoints |-> [l \in 1..L |-> LightDirs[((s + l - 2) % Len(LightDirs)) + 1]]]

\* A diffuse tensor that differs from point to point and channel to channel,
\* scaled by d
DiffuseInput(d) == [n \in 1..NrPoints |-> [c \in Channels |-> FDec(d * (n + c), -1)]]

PerPoint(row) == [n \in 1..NrPoints |-> row]

\* The specular dictionaries a caller passes to the model b, one value per
\* field for all points; eta is optional in CookTorrance.calculate_rhos
SpecularInputs(b) ==
    IF b = "Diffuse" THEN {<<>>}
    ELSE LET base == {[albedo |-> PerPoint(<<a, a, a>>), roughness |-> PerPoint(<<r>>)] :
                         a \in AlbedoInputs, r \in RoughnessInputs}
         IN  IF b = "CookTorranceF1" THEN base
             ELSE base \cup {[albedo |-> x.albedo, roughness |-> x.roughness,
                              eta |-> PerPoint(<<e>>)] : x \in base, e \in EtaInputs}

RhosInputs(b) ==
    {[Ls |-> LightsFrom(s, L), Vs |-> PerPoint(v), normals |-> PerPoint(Up),
      parameters |-> [diffuse |-> DiffuseInput(d), specular |-> sp]] :
        s \in DOMAIN LightDirs, L \in 1..MaxLights, v \in ViewDirs, d \in {0, 1},
        sp \in SpecularInputs(b)}

\* brdf.calculate_rhos(Ls, Vs, normals, parameters) on the constructed model
CallCalculateRhos ==
    /\ call = NoCall
    /\ \E in \in RhosInputs(brdf) :
          /\ call' = in
          /\ out' = CalculateRhos(brdf, in.Ls, in.Vs, in.normals, in.parameters)
    /\ raised' = out'.exc
    /\ last' = "calculate_rhos"
    /\ prev' = last
    /\ ops' = ops + 1
    /\ UNCHANGED <<heap, brdf, inst, diffuse_init, ckpt, cache, ret, nget>>

NextRhos == CallCalculateRhos

SpecRhos == Init /\ [][NextRhos]_vars

Called == call # NoCall

\* The cosines of the call made
NdotL(n, l) == InnerProduct(call.normals[n], call.Ls[n][l])
NdotV(n) == InnerProduct(call.normals[n], call.Vs[n])

WithoutEta(parameters) ==
    [parameters EXCEPT !.specular =
        [k \in DOMAIN parameters.specular \ {"eta"} |-> parameters.specular[k]]]

\* C7: CookTorranceF1.calculate_rhos returns the (rhos, NdotH) that
\* CookTorrance.calculate_rhos returns on the same inputs with eta omitted
C7_F1EqualsCookTorrance ==
    (Called /\ brdf = "CookTorranceF1") =>
        out = CookTorranceCalculateRhos(call.Ls, call.Vs, call.normals,
                                        WithoutEta(call.parameters))

\* C8: Diffuse.calculate_rhos returns an N x L x 3 tensor whose entry
\* [n, l, c] is diffuse[n, c] / pi for every light l
C8_DiffuseRhos ==
    (Called /\ brdf = "Diffuse") =>
        /\ out.exc = "none"
        /\ Shape3(out.rhos) = <<NrPoints, Len(call.Ls[1]), 3>>
        /\ \A n \in 1..NrPoints : \A l \in DOMAIN call.Ls[n] : \A c \in Channels :
              out.rhos[n][l][c] = FDiv(call.parameters.diffuse[n][c], FPi)

FiniteNonNegative(x) == FIsFinite(x) /\ FLeq(FZero, x)

\* C9: with roughness in [1e-6, 1 - 1e-6], eta in [1.0001, 2.999] or absent,
\* non-negative albedos and NdotL > 0, NdotV > 0, the D and G terms are finite
\* and CookTorrance.calculate_rhos returns finite, non-negative values
C9_FiniteReflectance ==
    (Called /\ brdf = "CookTorrance") =>
        \A n \in 1..NrPoints : \A l \in DOMAIN call.Ls[n] :
            (/\ FLess(FZero, NdotL(n, l)) /\ FLess(FZero, NdotV(n))
             /\ FLeq(FRat(RoughnessMin), call.parameters.specular.roughness[n][1])
             /\ FLeq(call.parameters.specular.roughness[n][1], FRat(RoughnessMax))) =>
                LET p_roughness == FSquare(call.parameters.specular.roughness[n][1])
                IN  /\ FIsFinite(GTR(CalculateNdotHs(call.Ls, call.Vs, call.normals).NdotHs[n][l],
                                     p_roughness))
                    /\ FIsFinite(SmithG1(NdotL(n, l), p_roughness).Gs)
                    /\ FIsFinite(SmithG1(NdotV(n), p_roughness).Gs)
                    /\ \A c \in Channels : FiniteNonNegative(out.rhos[n][l][c])

\* C17: in CookTorrance.calculate_rhos every point and light with NdotL <= 0
\* or NdotV <= 0 gets the specular term 0: its rho is diffuse / pi in each
\* channel, whatever albedo, roughness and eta are
C17_ShadowedIsDiffuse ==
    (Called /\ brdf = "CookTorrance") =>
        /\ out.exc = "none"
        /\ \A n \in 1..NrPoints : \A l \in DOMAIN call.Ls[n] :
              (FLeq(NdotL(n, l), FZero) \/ FLeq(NdotV(n), FZero)) =>
                  \A c \in Channels :
                      out.rhos[n][l][c] = FDiv(call.parameters.diffuse[n][c], FPi)

C17_Witness ==
    /\ Called
    /\ brdf = "CookTorrance"
    /\ "eta" \in DOMAIN call.parameters.specular
    /\ call.parameters.specular.albedo[1][1] = FOne
    /\ call.parameters.specular.roughness[1][1] = FRat(RoughnessMin)
    /\ call.parameters.diffuse[1][1] # FZero
    /\ Len(call.Ls[1]) = 2
    /\ FLess(NdotL(1, 1), FZero)
    /\ FLess(FZero, NdotL(1, 2))
    /\ NdotV(1) = FZero
    /\ out.rhos[1][1][1] = FDiv(call.parameters.diffuse[1][1], FPi)

\* C18: in CookTorrance.calculate_rhos no returned rho is NaN, +Inf or -Inf
\* when the diffuse albedo is finite: every non-finite entry of the specular
\* term was replaced by 0
C18_NonFiniteReplaced ==
    (Called /\ brdf = "CookTorrance") =>
        \A n \in 1..NrPoints : \A l \in DOMAIN call.Ls[n] : \A c \in Channels :
            FIsFinite(call.parameters.diffuse[n][c]) => FIsFinite(out.rhos[n][l][c])

(***************************************************************************)
(* Initialization, ownership of the parameters, checkpoints.               *)
(***************************************************************************)
\* The specular fields and widths the claim names for each model
ExpectedSpecular(b) ==
    IF b = "CookTorrance" THEN [albedo |-> 3, roughness |-> 1, eta |-> 1]
    ELSE IF b = "CookTorranceF1" THEN [albedo |-> 3, roughness |-> 1]
    ELSE <<>>

\* C11: after initialize the diffuse parameter holds the values of
\* diffuse_init, the specular basis has exactly the fields of the bound
\* model's parameter count, each basis_count x width and all 1, and the
\* weights are point_count x basis_count, all 1 / basis_count (basis_count 1
\* or the default 2)
C11_InitializeValues ==
    last = "initialize" =>
        \E nr_bases \in {1, 2} :
            /\ heap[DiffuseRef] = heap[diffuse_init]
            /\ SpecularNames = DOMAIN ExpectedSpecular(brdf)
            /\ \A name \in SpecularNames :
                   heap[SpecularRef(name)] =
                       [k \in 1..nr_bases |-> [j \in 1..ExpectedSpecular(brdf)[name] |-> One]]
            /\ heap[WeightsRef] =
                   [n \in 1..NrPoints |-> [k \in 1..nr_bases |-> <<1, nr_bases>>]]
            /\ \A n \in 1..NrPoints : RowSum(heap[WeightsRef])[n] = One

\* initialize with the default basis count on a CookTorrance instance whose
\* parameters an earlier initialize and optimizer step had set otherwise
C11_Witness ==
    /\ last = "initialize" /\ prev = "step" /\ brdf = "CookTorrance"
    /\ Len(heap[WeightsRef][1]) = NrBasesDefault
    /\ heap[SpecularRef("eta")] = <<<<One>>, <<One>>>>

\* C12: the diffuse parameter is owned apart from the caller's diffuse_init:
\* no optimizer step or clamp on the parametrization's diffuse parameter
\* changes diffuse_init, which therefore keeps the values it was given
C12_DiffuseInitUnchanged ==
    heap[diffuse_init] = [n \in 1..NrPoints |-> InitialDiffuseRow]

\* The values the checkpoint c holds in the heap h
CheckpointValues(h, c) == <<h[c[1]], Deref(h, c[2])>>

\* C13: a checkpoint is a deep copy in both directions: whatever is done to
\* the parametrization after serialize() returned the checkpoint, deserialize
\* of that checkpoint included, the checkpoint keeps its values
C13_CheckpointUnchanged ==
    [][(ckpt # NoCkpt /\ ckpt' = ckpt) =>
           CheckpointValues(heap', ckpt') = CheckpointValues(heap, ckpt)]_vars

(***************************************************************************)
(* A second instance.  lru_cache wraps the function get_brdf_parameters of *)
(* the class, so the instances of the class share one cache of one entry,  *)
(* keyed by the instance.  The other instance is bound to the same model   *)
(* and was initialized from the same diffuse_materials on its own device   *)
(* with the default nr_bases; of its state only what its                   *)
(* get_brdf_parameters returns is kept.  Its calls are not counted in ops. *)
(***************************************************************************)
Other == "B"

\* What the other instance's get_brdf_parameters builds
OtherValue(h, b, d) ==
    LET r == InitializeResult(h, b, d, HostDevice, NrBasesDefault)
    IN  BrdfParametersOf(r.h, r.inst)

\* get_brdf_parameters() on the other instance
OtherGetBrdfParameters ==
    /\ cache' = IF CacheLookup(cache, Other) # {} THEN cache
                ELSE CacheStore(cache, Other, OtherValue(heap, brdf, diffuse_init))
    /\ heap' = Collect(heap, inst, ckpt, cache', diffuse_init)
    /\ last' = "other.get_brdf_parameters"
    /\ prev' = last
    /\ raised' = "none"
    /\ UNCHANGED <<brdf, inst, diffuse_init, ckpt, ret, nget, ops, call, out>>

NextTwo == Next \/ OtherGetBrdfParameters

SpecTwo == Init /\ [][NextTwo]_vars

\* C14: the calls of the other instance do not change what the calls of this
\* instance return.  Without them the cache keeps this instance's entry from
\* its first successful call on, so each later call returns the specular
\* mixture the successful call before it returned; the same must hold with them
C14_OtherCallsUnseen ==
    [][(last' = "get_brdf_parameters" /\ ret # NoRet /\ ret' # NoRet) =>
           ret'.specular = ret.specular]_vars

(***************************************************************************)
(* Direct calls of the module-level functions: the two factories, the two  *)
(* recursive dictionary helpers and SmithG1, one call on inputs drawn from *)
(* small sets.  error is utils.logging.error, which materials.py imports   *)
(* and which is outside the sources at hand: it is taken as fatal, that    *)
(* is, the function calling it does not return.  brdf.py does not import   *)
(* it, so the name is unbound there.                                       *)
(***************************************************************************)
None == "None"

\* The exception in which a call of utils.logging.error ends
LoggingError == "fatal"

\* The names materials.py binds at module level
MaterialsGlobals ==
    {"torch", "abstractmethod", "Parametrization", "error", "lru_cache",
     "MaterialParametrization", "detach_and_clone_dict_recursive",
     "attach_dict_recursive", "BaseSpecularMaterials", "MaterialParametrizationFactory"}

\* error(...) as a statement of a function of a module with the names globals
ErrorCall(globals) ==
    IF "error" \in globals THEN [ret |-> None, exc |-> LoggingError]
    ELSE [ret |-> None, exc |-> "NameError"]

BrdfValidDict ==
    ("diffuse" :> "Diffuse") @@ ("cook torrance" :> "CookTorrance")
        @@ ("cook torrance F1" :> "CookTorranceF1")

MaterialValidDict == ("base specular materials" :> "BaseSpecularMaterials")

\* BrdfParametrizationFactory(name)
BrdfParametrizationFactory(name) ==
    IF name \in DOMAIN BrdfValidDict THEN [ret |-> BrdfValidDict[name], exc |-> "none"]
    ELSE ErrorCall(ModuleGlobals)

\* MaterialParametrizationFactory(name)
\* A factory that falls back to the one material variant for a name it does
\* not know
MaterialFactoryWithDefault(name) ==
    [ret |-> "BaseSpecularMaterials", exc |-> "none"]

MaterialParametrizationFactory(name) ==
    IF name \in DOMAIN MaterialValidDict THEN [ret |-> MaterialValidDict[name], exc |-> "none"]
    ELSE ErrorCall(MaterialsGlobals)

\* The identifiers a configuration may name
Identifiers ==
    {"diffuse", "cook torrance", "cook torrance F1", "base specular materials",
     "Diffuse", "cook torrance f1", "cook torrance F2", "cook-torrance", "cook torrance ",
     "CookTorrance", "base specular", "BaseSpecularMaterials", "lambertian", ""}

\* The state a direct call leaves: its arguments, its result, its exception
Direct(fn, arg, r) ==
    /\ call = NoCall
    /\ call' = [fn |-> fn, arg |-> arg]
    /\ out' = r.ret
    /\ raised' = r.exc
    /\ heap' = (IF "h" \in DOMAIN r THEN r.h ELSE heap)
    /\ last' = fn
    /\ prev' = last
    /\ ops' = ops + 1
    /\ UNCHANGED <<brdf, inst, diffuse_init, ckpt, cache, ret, nget>>

CallBrdfParametrizationFactory ==
    \E name \in Identifiers :
        Direct("BrdfParametrizationFactory", name, BrdfParametrizationFactory(name))

CallMaterialParametrizationFactory ==
    \E name \in Identifiers :
        Direct("MaterialParametrizationFactory", name, MaterialParametrizationFactory(name))

\* Containers that are no dict
ListNode(items) == [tag |-> "list", items |-> items]
SetNode(items) == [tag |-> "set", items |-> items]

\* What a dictionary value, or the argument itself, may be: a tensor on the
\* storage d, a list, a set
Leaves(d) == {TensorNode(d), ListNode(<<TensorNode(d)>>), SetNode({TensorNode(d)})}

\* Dictionaries of leaves, and dictionaries of leaves and such dictionaries
Level1(d) ==
    {DictNode(f) : f \in UNION {[K -> Leaves(d)] : K \in SUBSET {"diffuse", "specular"}}}
Level2(d) ==
    {DictNode(f) : f \in [{"diffuse", "specular"} -> Leaves(d) \cup Level1(d)]}

TreeInputs(d) == Leaves(d) \cup Level1(d) \cup Level2(d)

\* detach_and_clone_dict_recursive(dictionary) on the heap h
DetachAndCloneCall(h, dictionary) ==
    LET c == CloneStorages(h, TreeRefs(dictionary))
        r == DetachAndCloneDictRecursive(dictionary, c.to)
    IN  IF HasError(r) THEN ErrorCall(MaterialsGlobals)
        ELSE [ret |-> r, exc |-> "none", h |-> c.h]

\* attach_dict_recursive(dictionary)
AttachCall(dictionary) ==
    LET r == AttachDictRecursive(dictionary)
    IN  IF HasError(r) THEN ErrorCall(MaterialsGlobals) ELSE [ret |-> r, exc |-> "none"]

CallDetachAndCloneDictRecursive ==
    \E dictionary \in TreeInputs(diffuse_init) :
        Direct("detach_and_clone_dict_recursive", dictionary,
               DetachAndCloneCall(heap, dictionary))

CallAttachDictRecursive ==
    \E dictionary \in TreeInputs(diffuse_init) :
        Direct("attach_dict_recursive", dictionary, AttachCall(dictionary))

\* Cosines and roughnesses SmithG1 is called with
CosineInputs ==
    {FDec(-8, -1), FZero, FDec(3, -1), FDec(6, -1), FDec(8, -1), FOne, FDec(12, -1)}
AlphaInputs == {FRat(RoughnessMin), FDec(25, -2), FDec(48, -2), FDec(84, -2), FOne}

CallSmithG1 ==
    \E NdotWs \in CosineInputs, p_roughness \in AlphaInputs :
        Direct("SmithG1", <<NdotWs, p_roughness>>,
               [ret |-> SmithG1(NdotWs, p_roughness).Gs, exc |-> "none"])

NextCalls ==
    \/ CallBrdfParametrizationFactory
    \/ CallMaterialParametrizationFactory
    \/ CallDetachAndCloneDictRecursive
    \/ CallAttachDictRecursive
    \/ CallSmithG1

SpecCalls == Init /\ [][NextCalls]_vars

\* C15: each factory hands out the variant its table names for "diffuse",
\* "cook torrance", "cook torrance F1" (reflectance models) and for
\* "base specular materials" (materials); for every other identifier the call
\* ends in an error and hands out no variant.
C15_FactoriesResolve ==
    /\ (Called /\ call.fn = "BrdfParametrizationFactory") =>
           IF call.arg \in {"diffuse", "cook torrance", "cook torrance F1"}
           THEN /\ raised = "none"
                /\ out = (CASE call.arg = "diffuse" -> "Diffuse"
                            [] call.arg = "cook torrance" -> "CookTorrance"
                            [] call.arg = "cook torrance F1" -> "CookTorranceF1")
           ELSE raised # "none" /\ out = None
    /\ (Called /\ call.fn = "MaterialParametrizationFactory") =>
           IF call.arg = "base specular materials"
           THEN raised = "none" /\ out = "BaseSpecularMaterials"
           ELSE raised = LoggingError /\ out = None

C15_Witness ==
    /\ Called
    /\ call.fn = "MaterialParametrizationFactory"
    /\ call.arg = "cook torrance"
    /\ raised = LoggingError
    /\ out = None

\* A tree the helpers copy: a dict whose values are tensors or such dicts
RECURSIVE WellFormed(_)
WellFormed(node) ==
    /\ node.tag = "dict"
    /\ \A key \in DOMAIN node.items :
           node.items[key].tag = "tensor" \/ WellFormed(node.items[key])

\* The keys of a tree, level by level
RECURSIVE Shape(_)
Shape(node) ==
    IF node.tag = "dict" THEN [key \in DOMAIN node.items |-> Shape(node.items[key])]
    ELSE node.tag

\* C16: detach_and_clone_dict_recursive and attach_dict_recursive end in the
\* fatal error whenever the argument, or a value at any depth of it, is a
\* container that is no dict; otherwise they hand out a tree with the keys of
\* the argument at every level. No call hands out a part of a tree.
C16_HelpersFatal ==
    (Called /\ call.fn \in {"detach_and_clone_dict_recursive", "attach_dict_recursive"}) =>
        IF WellFormed(call.arg)
        THEN raised = "none" /\ Shape(out) = Shape(call.arg)
        ELSE raised = LoggingError /\ out = None

C16_Witness ==
    /\ Called
    /\ call.fn = "attach_dict_recursive"
    /\ call.arg.tag = "dict"
    /\ DOMAIN call.arg.items = {"diffuse", "specular"}
    /\ call.arg.items["diffuse"].tag = "tensor"
    /\ call.arg.items["specular"].tag = "dict"
    /\ DOMAIN call.arg.items["specular"].items = {"diffuse", "specular"}
    /\ call.arg.items["specular"].items["diffuse"].tag = "tensor"
    /\ call.arg.items["specular"].items["specular"].tag = "list"
    /\ raised = LoggingError
    /\ out = None

\* C19: SmithG1 lies in [0, 1] for every cosine and every roughness above 0.
C19_SmithG1InUnitInterval ==
    (Called /\ call.fn = "SmithG1") => (FLeq(FZero, out) /\ FLeq(out, FOne))

\* C20: in a run initialize; (optimizer step; enforce_parameter_bounds)*,
\* after initialize and after each enforce_parameter_bounds every basis
\* roughness lies in [1e-6, 1 - 1e-6] and every basis eta in [1.0001, 2.999]
C20_BasisWithinBounds ==
    (/\ Initialized
     /\ "roughness" \in SpecularNames
     /\ \/ ops = 1 /\ last = "initialize"
        \/ ops = 3 /\ prev = "step" /\ last = "enforce_parameter_bounds") =>
        /\ \A x \in Entries(heap[SpecularRef("roughness")]) :
               InRange(x, RoughnessMin, RoughnessMax)
        /\ "eta" \in SpecularNames =>
               \A x \in Entries(heap[SpecularRef("eta")]) : InRange(x, EtaMin, EtaMax)

=============================================================================
